---- MODULE Spec2Model ----
(***************************************************************************)
(* A model of examples/nli/scone/scone.ipynb: the ScoNe data loader        *)
(* (load_scone and its inner as_example), the seeded train/dev split, the  *)
(* ScoNeCoT module, and the run of the notebook's cells from first to      *)
(* last.                                                                   *)
(*                                                                         *)
(* Text is modelled as sequences of one-character strings, so that         *)
(* indexing, slicing, lower() and strip(".") are computed and not assumed. *)
(* A cell of a data frame is a record [kind, chars]: a str, the float NaN  *)
(* that pandas gives a missing value, or a number.                         *)
(***************************************************************************)
EXTENDS Naturals, Sequences, FiniteSets, TLC

VARIABLES
    row,        \* SpecRow: the row handed to as_example
    ex,         \* SpecRow: what as_example gave for it
    dir,        \* SpecLoad: the files glob enumerates, in enumeration order
    loaded,     \* SpecLoad: what load_scone gave for dir
    trainDir,   \* SpecSplit: the files of ScoNe/scone_nli/train
    entropy,    \* SpecSplit: per run, the state the generator starts in
    rng,        \* SpecSplit: per run, the state of the random generator
    all_train,  \* SpecSplit: per run, the list load_scone gave, then shuffled
    train,      \* SpecSplit: per run, all_train[: 200]
    dev,        \* SpecSplit: per run, all_train[200: 250]
    pc,         \* SpecSplit: per run, the next statement of the split cell
    generate_answer,  \* SpecForward: the predictor ScoNeCoT holds
    oracle,     \* SpecForward: what the external capability answers
    calls,      \* SpecForward: the calls the external capability received
    fwdLog,     \* SpecForward: the forward calls made and what each gave
    RUN_FROM_SCRATCH,  \* SpecNotebook: the toggle of the set-up cells
    disk,       \* SpecNotebook: the two ScoNe directories and the demos file
    examples,   \* SpecNotebook: the Example objects made so far
    lists,      \* SpecNotebook: the list objects made so far, as object numbers
    programs,   \* SpecNotebook: the ScoNeCoT objects made so far
    notebook,   \* SpecNotebook: what the notebook's names are bound to
    settings_lm,  \* SpecNotebook: dspy.settings.lm
    generator,  \* SpecNotebook: the state of the random module's generator
    cell,       \* SpecNotebook: the next statement of the notebook
    journal     \* SpecNotebook: the calls of the library made so far

rowVars == <<row, ex>>
loadVars == <<dir, loaded>>
splitVars == <<trainDir, entropy, rng, all_train, train, dev, pc>>
fwdVars == <<generate_answer, oracle, calls, fwdLog>>
nbVars ==
    <<RUN_FROM_SCRATCH, disk, examples, lists, programs, notebook, settings_lm,
      generator, cell, journal>>
vars == <<rowVars, loadVars, splitVars, fwdVars, nbVars>>

(***************************************************************************)
(* Bounds of the model.                                                    *)
(***************************************************************************)
\* Longest hypothesis enumerated character by character.
MaxLen == 3
\* Most files in a directory.
MaxFiles == 2
\* Most data rows in a directory, over all its files.
MaxRows == 3
\* Most rows of the training directory.
MaxTrain == 251
\* The generator starts in one of the states 0..MaxEntropy.
MaxEntropy == 2
\* Most forward calls in a run.
MaxCalls == 3

(***************************************************************************)
(* Text.                                                                   *)
(***************************************************************************)
UpperCase == <<"A","B","C","D","E","F","G","H","I","J","K","L","M",
               "N","O","P","Q","R","S","T","U","V","W","X","Y","Z">>
LowerCase == <<"a","b","c","d","e","f","g","h","i","j","k","l","m",
               "n","o","p","q","r","s","t","u","v","w","x","y","z">>

\* str.lower() of one character.
Lower(c) ==
    IF \E i \in DOMAIN UpperCase : UpperCase[i] = c
    THEN LowerCase[CHOOSE i \in DOMAIN UpperCase : UpperCase[i] = c]
    ELSE c

RECURSIVE LStrip(_)
LStrip(s) == IF s # <<>> /\ Head(s) = "." THEN LStrip(Tail(s)) ELSE s

RECURSIVE RStrip(_)
RStrip(s) ==
    IF s # <<>> /\ s[Len(s)] = "." THEN RStrip(SubSeq(s, 1, Len(s) - 1)) ELSE s

\* str.strip("."): every leading and every trailing period goes.
Strip(s) == RStrip(LStrip(s))

\* "Can we logically conclude for sure that "
QuestionPrefix ==
    <<"C","a","n"," ","w","e"," ","l","o","g","i","c","a","l","l","y"," ",
      "c","o","n","c","l","u","d","e"," ","f","o","r"," ","s","u","r","e"," ",
      "t","h","a","t"," ">>

Entailment == <<"e","n","t","a","i","l","m","e","n","t">>
Neutral == <<"n","e","u","t","r","a","l">>
\* A label that differs from 'entailment' in case only.
EntailmentCap == <<"E","n","t","a","i","l","m","e","n","t">>

(***************************************************************************)
(* Cells and rows.                                                         *)
(***************************************************************************)
StrCell(s) == [kind |-> "str", chars |-> s]
NaN == [kind |-> "nan", chars |-> <<>>]
NumCell(s) == [kind |-> "num", chars |-> s]

Columns == {"sentence1", "sentence2", "gold_label",
            "sentence1_edited", "sentence2_edited", "gold_label_edited"}

\* 'one_scoped', the category as_example tests for, and two others.
OneScoped == <<"o","n","e","_","s","c","o","p","e","d">>
NoNegation == <<"n","o","_","n","e","g","a","t","i","o","n">>
OddCategory == <<"x">>
Categories == {OneScoped, NoNegation, OddCategory}

NoExample ==
    [context |-> NaN, question |-> <<>>, answer |-> "", category |-> <<>>,
     inputs |-> {}]

\* What a call gave: a value (err = "none"), an exception, or nothing yet.
Raised(e) == [err |-> e, ex |-> NoExample]
Returned(e) == [err |-> "none", ex |-> e]
Pending == [err |-> "pending", ex |-> NoExample]
LoadRaised(e) == [err |-> e, list |-> <<>>]
LoadReturned(l) == [err |-> "none", list |-> l]
LoadPending == [err |-> "pending", list |-> <<>>]

(***************************************************************************)
(* as_example.  A row is [category, cells], cells a function from the      *)
(* columns of data_df to cells.                                            *)
(***************************************************************************)
SuffixAlwaysEdited(r) == "_edited"

\* suffix = '' if row['category'] == 'one_scoped' else '_edited'
Suffix(r) == IF r.category = OneScoped THEN "" ELSE "_edited"

QuestionKeepsPeriods(h) ==
    QuestionPrefix \o <<Lower(h[1])>> \o SubSeq(h, 2, Len(h)) \o <<"?">>

\* question = row[hkey][0].lower() + row[hkey][1: ].strip(".")
\* question = f"Can we logically conclude for sure that {question}?"
Question(h) ==
    QuestionPrefix \o <<Lower(h[1])>> \o Strip(SubSeq(h, 2, Len(h))) \o <<"?">>

LabelIgnoresCase(g) ==
    IF g.kind = "str"
       /\ [i \in DOMAIN g.chars |-> Lower(g.chars[i])] = Entailment
    THEN "Yes" ELSE "No"

\* label = "Yes" if row['gold_label' + suffix] == 'entailment' else "No"
Label(g) == IF g = StrCell(Entailment) THEN "Yes" ELSE "No"

as_exampleLabelUnsuffixed(r) ==
    LET suffix == Suffix(r)
        hkey == "sentence2" \o suffix
        ckey == "sentence1" \o suffix
        has(k) == k \in DOMAIN r.cells
    IN  IF ~has(hkey) THEN Raised("KeyError")
        ELSE IF r.cells[hkey].kind # "str" THEN Raised("TypeError")
        ELSE IF r.cells[hkey].chars = <<>> THEN Raised("IndexError")
        ELSE IF ~has("gold_label") THEN Raised("KeyError")
        ELSE IF ~has(ckey) THEN Raised("KeyError")
        ELSE Returned([context |-> r.cells[ckey],
                       question |-> Question(r.cells[hkey].chars),
                       answer |-> Label(r.cells["gold_label"]),
                       category |-> r.category,
                       inputs |-> {"context", "question"}])

as_example(r) ==
    LET suffix == Suffix(r)
        hkey == "sentence2" \o suffix
        gkey == "gold_label" \o suffix
        ckey == "sentence1" \o suffix
        has(k) == k \in DOMAIN r.cells
    IN  IF ~has(hkey) THEN Raised("KeyError")
        \* subscripting a float or a number
        ELSE IF r.cells[hkey].kind # "str" THEN Raised("TypeError")
        \* "" has no character 0
        ELSE IF r.cells[hkey].chars = <<>> THEN Raised("IndexError")
        ELSE IF ~has(gkey) THEN Raised("KeyError")
        ELSE IF ~has(ckey) THEN Raised("KeyError")
        ELSE Returned([context |-> r.cells[ckey],
                       question |-> Question(r.cells[hkey].chars),
                       answer |-> Label(r.cells[gkey]),
                       category |-> r.category,
                       inputs |-> {"context", "question"}])

(***************************************************************************)
(* load_scone.  A directory is the sequence of its files in the order glob *)
(* enumerates them; a file is [name, cols, rows]: its base name, the       *)
(* columns after the index column, and its data rows as raw fields.        *)
(***************************************************************************)
DotCsv == <<".","c","s","v">>

EndsWithCsv(s) ==
    Len(s) >= Len(DotCsv) /\ SubSeq(s, Len(s) - Len(DotCsv) + 1, Len(s)) = DotCsv

\* glob.glob(dirname + "/*.csv")
Glob(d) == SelectSeq(d, LAMBDA f : EndsWithCsv(f.name))

\* os.path.basename(filename).replace(".csv", ""): every occurrence goes.
RECURSIVE CategoryOf(_)
CategoryOf(name) ==
    IF name = <<>> THEN <<>>
    ELSE IF Len(name) >= Len(DotCsv) /\ SubSeq(name, 1, Len(DotCsv)) = DotCsv
    THEN CategoryOf(SubSeq(name, Len(DotCsv) + 1, Len(name)))
    ELSE <<Head(name)>> \o CategoryOf(Tail(name))

Digits == {"0","1","2","3","4","5","6","7","8","9"}
IsDigits(s) == s # <<>> /\ \A i \in DOMAIN s : s[i] \in Digits

\* Fields read_csv takes for missing (the empty field and its default
\* na_values; two of them here).
NaValues == {<<>>, <<"N","A">>}

\* read_csv infers a column's type from all its fields: a column whose
\* present fields are all numbers is numeric, any other holds str.
ColumnNumeric(f, c) ==
    /\ \E i \in DOMAIN f.rows : f.rows[i][c] \notin NaValues
    /\ \A i \in DOMAIN f.rows :
        f.rows[i][c] \in NaValues \/ IsDigits(f.rows[i][c])

ParseCell(f, c, raw) ==
    IF raw \in NaValues THEN NaN
    ELSE IF ColumnNumeric(f, c) THEN NumCell(raw)
    ELSE StrCell(raw)

\* df = pd.read_csv(filename, index_col=0)
\* df['category'] = os.path.basename(filename).replace(".csv", "")
ReadCsv(f) ==
    [category |-> CategoryOf(f.name),
     cols |-> f.cols,
     rows |-> [i \in DOMAIN f.rows |->
                 [c \in f.cols |-> ParseCell(f, c, f.rows[i][c])]]]

RECURSIVE Flatten(_)
Flatten(ss) == IF ss = <<>> THEN <<>> ELSE Head(ss) \o Flatten(Tail(ss))

ConcatLastFileFirst(dfs) ==
    LET allcols == UNION {dfs[k].cols : k \in DOMAIN dfs}
        widen(df, cells) ==
            [c \in allcols |-> IF c \in df.cols THEN cells[c] ELSE NaN]
        rev == [k \in DOMAIN dfs |-> dfs[Len(dfs) + 1 - k]]
    IN  Flatten([k \in DOMAIN rev |->
            [i \in DOMAIN rev[k].rows |->
                [category |-> rev[k].category,
                 cells |-> widen(rev[k], rev[k].rows[i])]]])

\* pd.concat(dfs): the rows of the frames in order, over the union of their
\* columns; a row has NaN in a column its own file lacks.
Concat(dfs) ==
    LET allcols == UNION {dfs[k].cols : k \in DOMAIN dfs}
        widen(df, cells) ==
            [c \in allcols |-> IF c \in df.cols THEN cells[c] ELSE NaN]
    IN  Flatten([k \in DOMAIN dfs |->
            [i \in DOMAIN dfs[k].rows |->
                [category |-> dfs[k].category,
                 cells |-> widen(dfs[k], dfs[k].rows[i])]]])

\* The rows are converted in order and the first exception ends the call.
ApplyRows(rows) ==
    LET res == [i \in DOMAIN rows |-> as_example(rows[i])]
        bad == {i \in DOMAIN rows : res[i].err # "none"}
    IN  IF bad # {}
        THEN LoadRaised(res[CHOOSE i \in bad : \A j \in bad : i <= j].err)
        ELSE LoadReturned([i \in DOMAIN rows |-> res[i].ex])

ApplySkipsFailedRows(rows) ==
    LET res == [i \in DOMAIN rows |-> as_example(rows[i])]
        good == SelectSeq(res, LAMBDA r : r.err = "none")
    IN  LoadReturned([i \in DOMAIN good |-> good[i].ex])

ApplyRaisesOnEmpty(rows) ==
    IF rows = <<>> THEN LoadRaised("TypeError") ELSE ApplyRows(rows)

\* list(data_df.apply(as_example, axis=1).values).  On a frame without rows
\* apply only probes as_example with an empty row, swallows what it raises
\* and gives back an empty frame, whose values list to [].
Apply(rows) ==
    IF rows = <<>> THEN LoadReturned(<<>>) ELSE ApplyRows(rows)

load_sconeEmptyOnNoFiles(d) ==
    LET files == Glob(d)
        dfs == [k \in DOMAIN files |-> ReadCsv(files[k])]
    IN  IF dfs = <<>> THEN LoadReturned(<<>>) ELSE Apply(Concat(dfs))

load_scone(d) ==
    LET files == Glob(d)
        dfs == [k \in DOMAIN files |-> ReadCsv(files[k])]
    IN  \* pd.concat([]) raises "No objects to concatenate"
        IF dfs = <<>> THEN LoadRaised("ValueError")
        ELSE Apply(Concat(dfs))

(***************************************************************************)
(* The train/dev split cell.  Two runs of the cell, each in a process of   *)
(* its own, over the same training directory.                              *)
(*                                                                         *)
(* The generator of the random module is abstracted: its state is a        *)
(* number, seed(a) sets the state to a function of a alone, and a draw is  *)
(* a function of the state (a linear congruential step here, in place of   *)
(* the Mersenne Twister).  Before seed() the state is whatever the process *)
(* drew from the operating system.                                         *)
(***************************************************************************)
Runs == {1, 2}

Min(a, b) == IF a <= b THEN a ELSE b

\* random.seed(1)
SeedValue == 1
\* all_train[: 200], all_train[200: 250]
TrainEnd == 200
DevEnd == 250

SeedIgnored(g, a) == g

\* random.seed(a): the state depends on a alone.
Seeded(g, a) == a % 65537

LcgStep(g) == (g * 75 + 74) % 65537

\* self._randbelow(n): a number in 0..n-1 and the generator's next state.
RandBelow(g, n) == [value |-> LcgStep(g) % n, state |-> LcgStep(g)]

SwapOverwrites(x, i, j) == [x EXCEPT ![i] = x[j]]

Swap(x, i, j) == [x EXCEPT ![i] = x[j], ![j] = x[i]]

\* The generator's state after k draws: a draw takes one step, whatever
\* is being shuffled.  (The test on s has TLC finish the first half of the
\* steps before it starts the second.)
RECURSIVE StateAfter(_, _)
StateAfter(g, k) ==
    IF k = 0 THEN g
    ELSE IF k = 1 THEN LcgStep(g)
    ELSE LET s == StateAfter(g, k \div 2)
         IN  IF s >= 0 THEN StateAfter(s, k - (k \div 2)) ELSE s

\* for i in reversed(range(1, len(x))):
\*     j = randbelow(i + 1); x[i], x[j] = x[j], x[i]
\* The k iterations from Python's index i downwards, started with the
\* generator in state g; the sequence is indexed from 1.  The loop is cut
\* in halves, the second started in the state the first leaves (the test on
\* Len(y) has TLC finish the first half before it starts the second).
RECURSIVE ShuffleFrom(_, _, _, _)
ShuffleFrom(x, i, k, g) ==
    IF k = 0 THEN x
    ELSE IF k = 1 THEN Swap(x, i + 1, RandBelow(g, i + 1).value + 1)
    ELSE LET h == k \div 2
             y == ShuffleFrom(x, i, h, g)
         IN  IF Len(y) = Len(x)
             THEN ShuffleFrom(y, i - h, k - h, StateAfter(g, h))
             ELSE y

\* random.shuffle(x)
Shuffle(x, g) ==
    LET k == IF Len(x) = 0 THEN 0 ELSE Len(x) - 1
    IN  [list |-> ShuffleFrom(SubSeq(x, 1, Len(x)), Len(x) - 1, k, g),
         state |-> StateAfter(g, k)]

\* x[a: b]
Slice(x, a, b) == SubSeq(x, Min(a, Len(x)) + 1, Min(b, Len(x)))

IdleRow == row = [category |-> <<>>, cells |-> <<>>] /\ ex = Pending

IdleLoad == dir = <<>> /\ loaded = LoadPending

IdleSplit ==
    /\ trainDir = <<>>
    /\ entropy = [r \in Runs |-> 0]
    /\ rng = [r \in Runs |-> 0]
    /\ all_train = [r \in Runs |-> <<>>]
    /\ train = [r \in Runs |-> <<>>]
    /\ dev = [r \in Runs |-> <<>>]
    /\ pc = [r \in Runs |-> "idle"]

\* ScoNeCoT.__init__: self.generate_answer = dspy.ChainOfThought(ScoNeSignature)
NewScoNeCoT == [signature |-> "ScoNeSignature", demos |-> <<>>]

IdleForward ==
    /\ generate_answer = NewScoNeCoT
    /\ oracle = <<>>
    /\ calls = <<>>
    /\ fwdLog = <<>>

\* No name of the notebook is bound: 0 stands for no object.
NoNotebook ==
    [all_train |-> 0, train |-> 0, dev |-> 0, test |-> 0,
     evaluator |-> [devset |-> 0],
     cot_zeroshot |-> 0, cot_fewshot |-> 0,
     bootstrap_optimizer |-> [teacher_settings |-> "none"]]

NoFile == [exists |-> FALSE, demos |-> <<>>]

IdleNotebook ==
    /\ RUN_FROM_SCRATCH = FALSE
    /\ disk = [train |-> <<>>, test |-> <<>>, demos |-> NoFile]
    /\ examples = <<>>
    /\ lists = <<>>
    /\ programs = <<>>
    /\ notebook = NoNotebook
    /\ settings_lm = "none"
    /\ generator = 0
    /\ cell = "idle"
    /\ journal = <<>>

(***************************************************************************)
(* SpecRow: as_example applied to one row of data_df.                      *)
(***************************************************************************)
Alphabet == {"A", "b", "."}

SeqsUpTo(S, n) == UNION {[1..k -> S] : k \in 1..n}

\* "there is not a single dog"
SampleHypothesis ==
    <<"t","h","e","r","e"," ","i","s"," ","n","o","t"," ","a"," ",
      "s","i","n","g","l","e"," ","d","o","g">>
\* "The dog ran."
SampleSentence == <<"T","h","e"," ","d","o","g"," ","r","a","n",".">>

\* read_csv gives NaN for an empty field, so a str cell is never empty.
HypStrings == SeqsUpTo(Alphabet, MaxLen) \cup {SampleHypothesis, SampleSentence}
HypCells == {StrCell(s) : s \in HypStrings} \cup {NaN, NumCell(<<"7">>)}
DecoyHypCells == {StrCell(<<"Z", ".">>), StrCell(<<"z">>), NaN}
ContextCells == {StrCell(<<"P">>), StrCell(<<"Q">>), NaN}
LabelCells ==
    {StrCell(Entailment), StrCell(Neutral), StrCell(EntailmentCap), NaN}

\* One of the two hypothesis cells is drawn from HypCells, the other from
\* DecoyHypCells, so that a row taking the wrong column shows.
MkCells(s1, s2, gl, s1e, s2e, gle) ==
    [c \in Columns |->
        CASE c = "sentence1" -> s1
          [] c = "sentence2" -> s2
          [] c = "gold_label" -> gl
          [] c = "sentence1_edited" -> s1e
          [] c = "sentence2_edited" -> s2e
          [] c = "gold_label_edited" -> gle]

HypPairs ==
    (HypCells \X DecoyHypCells) \cup (DecoyHypCells \X HypCells)

RowCells ==
    {MkCells(s1, h[1], gl, s1e, h[2], gle) :
        s1 \in ContextCells, s1e \in ContextCells,
        gl \in LabelCells, gle \in LabelCells, h \in HypPairs}

InitRow ==
    /\ row \in [category : Categories, cells : RowCells]
    /\ ex = Pending
    /\ IdleLoad /\ IdleSplit /\ IdleForward /\ IdleNotebook

AsExample ==
    /\ ex = Pending
    /\ ex' = as_example(row)
    /\ UNCHANGED <<row, loadVars, splitVars, fwdVars, nbVars>>

NextRow == AsExample

SpecRow == InitRow /\ [][NextRow]_vars

(***************************************************************************)
(* Claims about as_example, under SpecRow.                                 *)
(***************************************************************************)
\* The columns the claims say a category reads.
ClaimedSuffix(r) == IF r.category = OneScoped THEN "" ELSE "_edited"
GoldCell(r) == r.cells["gold_label" \o ClaimedSuffix(r)]
HypCell(r) == r.cells["sentence2" \o ClaimedSuffix(r)]
PremiseCell(r) == r.cells["sentence1" \o ClaimedSuffix(r)]
OtherSuffix(r) == IF r.category = OneScoped THEN "_edited" ELSE ""

\* C1: the Example built from a row has answer "Yes" if and only if the
\* row's gold-label field (gold_label for one_scoped, gold_label_edited
\* otherwise) is the string "entailment"; any other value, a missing one
\* (NaN) included, gives "No".
C1_AnswerIffEntailment ==
    ex.err = "none" =>
        /\ ex.ex.answer = "Yes" <=> GoldCell(row) = StrCell(Entailment)
        /\ ex.ex.answer = "No" <=> GoldCell(row) # StrCell(Entailment)

\* Both directions happen: a row labelled entailment, and a row whose label
\* is missing, have become Examples.
C1_Witness ==
    /\ ex.err = "none"
    /\ GoldCell(row) = NaN
    /\ ex.ex.answer = "No"
    /\ row.cells["gold_label" \o OtherSuffix(row)] = StrCell(Entailment)

\* C2: a one_scoped row takes context, question and label from sentence1,
\* sentence2, gold_label; a row of any other category takes them from the
\* _edited columns, and never falls back on the un-suffixed ones: when its
\* own hypothesis column is unusable the row raises.
C2_ColumnsByCategory ==
    /\ ex.err = "none" =>
        /\ ex.ex.context = PremiseCell(row)
        /\ HypCell(row).kind = "str"
        /\ ex.ex.question = Question(HypCell(row).chars)
        /\ ex.ex.answer = Label(GoldCell(row))
    /\ (ex.err # "pending" /\ HypCell(row).kind # "str") => ex.err # "none"

\* A row of another category than one_scoped whose three un-suffixed cells
\* all differ from the _edited ones has become an Example.
C2_Witness ==
    /\ ex.err = "none"
    /\ row.category = NoNegation
    /\ row.cells["sentence1"] # row.cells["sentence1_edited"]
    /\ row.cells["sentence2"].kind = "str"
    /\ row.cells["sentence2"] # row.cells["sentence2_edited"]
    /\ Label(row.cells["gold_label"]) # Label(row.cells["gold_label_edited"])

\* The hypothesis as C6 words it: first character lower-cased, the final
\* period (one, if there is one) removed, nothing else changed.
RemoveFinalPeriod(s) ==
    IF s # <<>> /\ s[Len(s)] = "." THEN SubSeq(s, 1, Len(s) - 1) ELSE s

ClaimedQuestion(h) ==
    QuestionPrefix \o RemoveFinalPeriod(<<Lower(h[1])>> \o Tail(h)) \o <<"?">>

\* C6 as stated: the question is the prefix, the hypothesis with its first
\* character lower-cased and its final period removed, and "?".
C6_Original ==
    ex.err = "none" => ex.ex.question = ClaimedQuestion(HypCell(row).chars)

AllPeriods(s, a, b) == \A k \in a..b : s[k] = "."

\* C6 (amended): the question is the prefix, then the lower-cased first
\* character of the hypothesis, then the rest of the hypothesis without its
\* leading and trailing periods (all of them; the characters between are
\* unchanged), then "?".  The hypothesis "there is not a single dog"
\* labelled entailment gives "Can we logically conclude for sure that there
\* is not a single dog?" and "Yes".
C6_QuestionStripsPeriods ==
    ex.err = "none" =>
        LET h == HypCell(row).chars
            q == ex.ex.question
            n == Len(QuestionPrefix)
            body == SubSeq(q, n + 1, Len(q) - 1)
        IN  /\ Len(q) >= n + 2
            /\ SubSeq(q, 1, n) = QuestionPrefix
            /\ q[Len(q)] = "?"
            /\ body[1] = Lower(h[1])
            /\ \E i \in 2..(Len(h) + 1) : \E j \in (i - 1)..Len(h) :
                /\ Tail(body) = SubSeq(h, i, j)
                /\ AllPeriods(h, 2, i - 1)
                /\ AllPeriods(h, j + 1, Len(h))
                /\ i <= j => (h[i] # "." /\ h[j] # ".")
            /\ (h = SampleHypothesis /\ GoldCell(row) = StrCell(Entailment)) =>
                /\ q = QuestionPrefix \o SampleHypothesis \o <<"?">>
                /\ ex.ex.answer = "Yes"

\* The scenario of the claim has been loaded.
C6_Witness ==
    /\ ex.err = "none"
    /\ HypCell(row) = StrCell(SampleHypothesis)
    /\ GoldCell(row) = StrCell(Entailment)
    /\ ex.ex.answer = "Yes"

VariantCells ==
    {StrCell(<<"Q">>), StrCell(Entailment), StrCell(<<"b", ".">>), NaN}

\* The rows that differ from r in one cell other than its gold label, or in
\* a category that reads the same columns.
Variants(r) ==
    {[r EXCEPT !.cells[c] = v] :
        c \in Columns \ {"gold_label" \o ClaimedSuffix(r)}, v \in VariantCells}
    \cup {[r EXCEPT !.category = k] :
            k \in {k \in Categories : (k = OneScoped) <=> (r.category = OneScoped)}}

\* C8: the answer of every Example is "Yes" or "No", and it is a function
\* of the row's gold-label field alone: a row that differs in any other
\* field, and becomes an Example, gets the same answer.
C8_AnswerBinaryFromLabelOnly ==
    ex.err = "none" =>
        /\ ex.ex.answer \in {"Yes", "No"}
        /\ \A r2 \in Variants(row) :
            as_example(r2).err = "none" => as_example(r2).ex.answer = ex.ex.answer

\* A row of another category than one_scoped, labelled entailment in the
\* column it reads and otherwise in the column it does not, is an Example.
C8_Witness ==
    /\ ex.err = "none"
    /\ row.category # OneScoped
    /\ ex.ex.answer = "Yes"
    /\ row.cells["gold_label"] = StrCell(Neutral)
    /\ row.cells["gold_label_edited"] = StrCell(Entailment)

(***************************************************************************)
(* SpecLoad: load_scone applied to a directory.                            *)
(***************************************************************************)
OneScopedCsv == OneScoped \o DotCsv
NoNegationCsv == NoNegation \o DotCsv
\* "x.csv.csv": a name that holds ".csv" before its extension.
OddCsv == <<"x">> \o DotCsv \o DotCsv
\* A file glob does not match.
Readme == <<"R","E","A","D","M","E",".","m","d">>
CsvNames == {OneScopedCsv, NoNegationCsv, OddCsv}

Unsuffixed == {"sentence1", "sentence2", "gold_label"}
\* The columns a file may hold: all six, or the three of the MoNLI format.
ColumnSets == {Columns, Unsuffixed}

\* Raw rows: two well-formed ones, one with its labels and a premise
\* missing, one with its hypotheses missing or a number.
SampleRows ==
    {MkCells(<<"P">>, <<"A",".">>, Entailment, <<"Q">>, <<"B","b">>, Neutral),
     MkCells(<<"Q">>, <<"B","b">>, Neutral, <<"P">>, <<"A",".">>, Entailment),
     MkCells(<<>>, <<"A",".">>, <<>>, <<"Q">>, <<"B","b">>, <<>>),
     MkCells(<<"P">>, <<>>, Entailment, <<"Q">>, <<"7">>, Entailment)}

Restrict(r, cs) == [c \in cs |-> r[c]]

ReadmeShape == [name |-> Readme, cols |-> {}, n |-> 0]

\* The shapes of the directories of at most k entries with distinct names
\* and at most n data rows in all, in every enumeration order: per entry its
\* name, its columns and its number of rows.
RECURSIVE Shapes(_, _, _, _)
Shapes(k, n, names, withReadme) ==
    IF k = 0 THEN {<<>>}
    ELSE {<<>>}
         \cup UNION {{<<[name |-> e[1], cols |-> e[2], n |-> e[3]]>> \o d :
                        d \in Shapes(k - 1, n - e[3], names \ {e[1]}, withReadme)} :
                     e \in names \X ColumnSets \X (0..n)}
         \cup (IF withReadme
               THEN {<<ReadmeShape>> \o d : d \in Shapes(k - 1, n, names, FALSE)}
               ELSE {})

RECURSIVE RowsBefore(_, _)
RowsBefore(sh, j) == IF j = 1 THEN 0 ELSE RowsBefore(sh, j - 1) + sh[j - 1].n

\* The directory of shape sh whose rows, file after file, are rs.
Directory(sh, rs) ==
    [j \in DOMAIN sh |->
        [name |-> sh[j].name,
         cols |-> sh[j].cols,
         rows |-> [i \in 1..sh[j].n |->
                     Restrict(rs[RowsBefore(sh, j) + i], sh[j].cols)]]]

InitLoad ==
    /\ \E sh \in Shapes(MaxFiles, MaxRows, CsvNames, TRUE) :
        \E rs \in [1..RowsBefore(sh, Len(sh) + 1) -> SampleRows] :
            dir = Directory(sh, rs)
    /\ loaded = LoadPending
    /\ IdleRow /\ IdleSplit /\ IdleForward /\ IdleNotebook

LoadScone ==
    /\ loaded = LoadPending
    /\ loaded' = load_scone(dir)
    /\ UNCHANGED <<dir, rowVars, splitVars, fwdVars, nbVars>>

NextLoad == LoadScone

SpecLoad == InitLoad /\ [][NextLoad]_vars

(***************************************************************************)
(* Claims about load_scone, under SpecLoad.                                *)
(***************************************************************************)
CsvFiles(d) == SelectSeq(d, LAMBDA f : EndsWithCsv(f.name))

RECURSIVE TotalRows(_)
TotalRows(fs) == IF fs = <<>> THEN 0 ELSE Len(Head(fs).rows) + TotalRows(Tail(fs))

\* The rows of data_df, file after file.
SourceRows(d) ==
    Concat([k \in DOMAIN CsvFiles(d) |-> ReadCsv(CsvFiles(d)[k])])

\* A valid row: the three fields its category reads are present strings.
ValidRow(r) ==
    \A base \in {"sentence1", "sentence2", "gold_label"} :
        /\ (base \o ClaimedSuffix(r)) \in DOMAIN r.cells
        /\ r.cells[base \o ClaimedSuffix(r)].kind = "str"

\* C3: a directory of at least one CSV file whose files hold N valid rows in
\* all loads as a list of exactly N Examples, the i-th made from the i-th
\* row: none dropped, duplicated or merged, however the rows are spread
\* over the files.
C3_NRowsGiveNExamples ==
    (loaded.err # "pending" /\ CsvFiles(dir) # <<>>) =>
        LET rows == SourceRows(dir)
        IN  /\ (\A i \in DOMAIN rows : ValidRow(rows[i])) => loaded.err = "none"
            /\ loaded.err = "none" =>
                /\ Len(loaded.list) = TotalRows(CsvFiles(dir))
                /\ \A i \in DOMAIN rows :
                    loaded.list[i] = as_example(rows[i]).ex

\* Three valid rows spread over two files have been loaded.
C3_Witness ==
    /\ loaded.err = "none"
    /\ Len(CsvFiles(dir)) = 2
    /\ \A k \in 1..2 : CsvFiles(dir)[k].rows # <<>>
    /\ \A i \in DOMAIN SourceRows(dir) : ValidRow(SourceRows(dir)[i])
    /\ Len(loaded.list) = 3

\* C4: load_scone fails loudly: a load that returns a list had no file
\* lacking a column its category reads and no row with one of those three
\* fields missing or not a string.
C4_FailsLoudly ==
    loaded.err = "none" =>
        \A i \in DOMAIN SourceRows(dir) : ValidRow(SourceRows(dir)[i])

\* C5: a directory with one CSV file of a header line and no data row loads
\* as the empty list, without an error.
C5_HeaderOnlyGivesEmptyList ==
    (/\ loaded.err # "pending"
     /\ Len(CsvFiles(dir)) = 1
     /\ CsvFiles(dir)[1].rows = <<>>) => loaded = LoadReturned(<<>>)

\* The header-only file has been loaded.
C5_Witness ==
    /\ loaded = LoadReturned(<<>>)
    /\ Len(CsvFiles(dir)) = 1
    /\ CsvFiles(dir)[1].rows = <<>>
    /\ CsvFiles(dir)[1].cols = Columns

\* The name of the file the i-th row of data_df comes from.
RECURSIVE FileOfRow(_, _)
FileOfRow(fs, i) ==
    IF i <= Len(Head(fs).rows) THEN Head(fs).name
    ELSE FileOfRow(Tail(fs), i - Len(Head(fs).rows))

\* A file name without its extension.
BaseName(name) == SubSeq(name, 1, Len(name) - Len(DotCsv))

\* C9: every Example made from a row of file F has category equal to the
\* name of F without its .csv extension, context equal to the row's
\* sentence1 field (with the category's suffix) unchanged, and exactly
\* context and question as its inputs.
C9_CategoryIsBaseName ==
    loaded.err = "none" =>
        \A i \in DOMAIN loaded.list :
            /\ loaded.list[i].category = BaseName(FileOfRow(CsvFiles(dir), i))
            /\ loaded.list[i].context = PremiseCell(SourceRows(dir)[i])
            /\ loaded.list[i].inputs = {"context", "question"}

\* The Examples of the list l made from the k-th of the files fs.
Block(l, fs, k) ==
    SubSeq(l, TotalRows(SubSeq(fs, 1, k - 1)) + 1, TotalRows(SubSeq(fs, 1, k)))

\* The enumeration orders of n files.
Orders(n) == {p \in [1..n -> 1..n] : \A i, j \in 1..n : p[i] = p[j] => i = j}

\* C15: the list load_scone returns is the files' rows file after file in
\* the order glob enumerates the files, each file's rows in their order in
\* the file (the i-th Example of the k-th block has the k-th file's category
\* and the question of that file's i-th row); the same files enumerated in
\* another order load as the same per-file blocks in that order.
C15_ConcatInEnumerationOrder ==
    loaded.err = "none" =>
        LET fs == CsvFiles(dir)
        IN  /\ Len(loaded.list) = TotalRows(fs)
            /\ \A k \in DOMAIN fs : \A i \in DOMAIN fs[k].rows :
                LET e == Block(loaded.list, fs, k)[i]
                    hkey == IF CategoryOf(fs[k].name) = OneScoped
                            THEN "sentence2" ELSE "sentence2_edited"
                IN  /\ e.category = CategoryOf(fs[k].name)
                    /\ hkey \in fs[k].cols
                    /\ e.question = Question(fs[k].rows[i][hkey])
            /\ \A p \in Orders(Len(fs)) :
                LET res == load_scone([k \in DOMAIN fs |-> fs[p[k]]])
                IN  /\ res.err = "none"
                    /\ res.list =
                        Flatten([k \in DOMAIN fs |-> Block(loaded.list, fs, p[k])])

\* Two files with rows of their own have been loaded, and enumerated the
\* other way round they load as another list.
C15_Witness ==
    /\ loaded.err = "none"
    /\ Len(CsvFiles(dir)) = 2
    /\ \A k \in 1..2 : CsvFiles(dir)[k].rows # <<>>
    /\ Len(loaded.list) = 3
    /\ load_scone(<<CsvFiles(dir)[2], CsvFiles(dir)[1]>>).list # loaded.list

\* C18: load_scone on a directory without a .csv file (an empty or missing
\* one included) ends in an error and gives no list, while a directory whose
\* .csv files are all header-only loads as the empty list.
C18_NoCsvFileIsAnError ==
    loaded.err # "pending" =>
        /\ CsvFiles(dir) = <<>> => (loaded.err = "ValueError" /\ loaded.list = <<>>)
        /\ (/\ CsvFiles(dir) # <<>>
            /\ \A k \in DOMAIN CsvFiles(dir) : CsvFiles(dir)[k].rows = <<>>)
                => loaded = LoadReturned(<<>>)

\* A directory holding only a file that is no .csv file has been loaded.
C18_Witness ==
    /\ loaded.err = "ValueError"
    /\ dir # <<>>
    /\ CsvFiles(dir) = <<>>

(***************************************************************************)
(* SpecSplit: the train/dev split cell, run twice over one directory.      *)
(***************************************************************************)
DigitChars == <<"0","1","2","3","4","5","6","7","8","9">>

\* str(i)
RECURSIVE DigitsOf(_)
DigitsOf(i) ==
    IF i < 10 THEN <<DigitChars[i + 1]>>
    ELSE DigitsOf(i \div 10) \o <<DigitChars[(i % 10) + 1]>>

\* The i-th training row: every text ends in i, so no two rows are equal.
TrainRow(i) ==
    MkCells(<<"P">> \o DigitsOf(i), <<"H">> \o DigitsOf(i),
            IF i % 2 = 0 THEN Entailment ELSE Neutral,
            <<"Q">> \o DigitsOf(i), <<"G">> \o DigitsOf(i),
            IF i % 3 = 0 THEN Entailment ELSE Neutral)

\* A training directory of n rows: the first half in one_scoped.csv, the
\* rest in no_negation.csv.
TrainDirectory(n) ==
    <<[name |-> OneScopedCsv, cols |-> Columns,
       rows |-> [i \in 1..(n \div 2) |-> TrainRow(i)]],
      [name |-> NoNegationCsv, cols |-> Columns,
       rows |-> [i \in 1..(n - (n \div 2)) |-> TrainRow((n \div 2) + i)]]>>

\* Sizes around the two slice points, and small ones.
TrainSizes ==
    {0, 1, 2, 3, TrainEnd - 1, TrainEnd, TrainEnd + 1, DevEnd - 1, DevEnd,
     MaxTrain}

InitSplit ==
    /\ \E n \in TrainSizes : trainDir = TrainDirectory(n)
    /\ entropy \in [Runs -> 0..MaxEntropy]
    /\ rng = entropy
    /\ all_train = [r \in Runs |-> <<>>]
    /\ train = [r \in Runs |-> <<>>]
    /\ dev = [r \in Runs |-> <<>>]
    /\ pc = [r \in Runs |-> "load"]
    /\ IdleRow /\ IdleLoad /\ IdleForward /\ IdleNotebook

\* The second run starts when the first has ended.
MayStep(r) == \A q \in Runs : q < r => pc[q] \in {"done", "failed"}

\* all_train = load_scone("ScoNe/scone_nli/train")
LoadTrain(r) ==
    /\ pc[r] = "load" /\ MayStep(r)
    /\ LET res == load_scone(trainDir)
       IN  IF res.err = "none"
           THEN /\ all_train' = [all_train EXCEPT ![r] = res.list]
                /\ pc' = [pc EXCEPT ![r] = "seed"]
           ELSE /\ pc' = [pc EXCEPT ![r] = "failed"]
                /\ UNCHANGED all_train
    /\ UNCHANGED <<trainDir, entropy, rng, train, dev, rowVars, loadVars, fwdVars, nbVars>>

\* random.seed(1)
SeedTrain(r) ==
    /\ pc[r] = "seed"
    /\ rng' = [rng EXCEPT ![r] = Seeded(rng[r], SeedValue)]
    /\ pc' = [pc EXCEPT ![r] = "shuffle"]
    /\ UNCHANGED <<trainDir, entropy, all_train, train, dev, rowVars, loadVars, fwdVars, nbVars>>

\* random.shuffle(all_train): in place
ShuffleTrain(r) ==
    /\ pc[r] = "shuffle"
    /\ LET sh == Shuffle(all_train[r], rng[r])
       IN  /\ all_train' = [all_train EXCEPT ![r] = sh.list]
           /\ rng' = [rng EXCEPT ![r] = sh.state]
    /\ pc' = [pc EXCEPT ![r] = "split"]
    /\ UNCHANGED <<trainDir, entropy, train, dev, rowVars, loadVars, fwdVars, nbVars>>

\* train, dev = all_train[: 200], all_train[200: 250]
SplitTrain(r) ==
    /\ pc[r] = "split"
    /\ train' = [train EXCEPT ![r] = Slice(all_train[r], 0, TrainEnd)]
    /\ dev' = [dev EXCEPT ![r] = Slice(all_train[r], TrainEnd, DevEnd)]
    /\ pc' = [pc EXCEPT ![r] = "done"]
    /\ UNCHANGED <<trainDir, entropy, rng, all_train, rowVars, loadVars, fwdVars, nbVars>>

NextSplit ==
    \E r \in Runs :
        \/ LoadTrain(r)
        \/ SeedTrain(r)
        \/ ShuffleTrain(r)
        \/ SplitTrain(r)

SpecSplit == InitSplit /\ [][NextSplit]_vars

\* C7: with the seed fixed by random.seed(1), two runs of the split over the
\* same loaded examples give the same train list and the same dev list,
\* element for element, whatever state each run's generator started in.
C7_SplitReproducible ==
    (\A r \in Runs : pc[r] = "done") =>
        /\ train[1] = train[2]
        /\ dev[1] = dev[2]

\* Two runs whose generators started in different states have split 250
\* examples into 200 and 50, and the shuffle has moved examples.
C7_Witness ==
    /\ \A r \in Runs : pc[r] = "done"
    /\ entropy[1] # entropy[2]
    /\ Len(train[1]) = TrainEnd
    /\ Len(dev[1]) = DevEnd - TrainEnd
    /\ load_scone(trainDir).err = "none"
    /\ Len(load_scone(trainDir).list) = DevEnd
    /\ train[1] # Slice(load_scone(trainDir).list, 0, TrainEnd)
    /\ dev[1] # Slice(load_scone(trainDir).list, TrainEnd, DevEnd)

\* C17: the shuffled list is a permutation of the loaded one (the loaded
\* Examples are pairwise different, so the same set and length), train is
\* its first min(200, n) elements and dev its elements 200..249 that exist;
\* with n >= 250 the sizes are 200 and 50 and no Example is in both.
C17_SplitIsPartition ==
    \A r \in Runs :
        pc[r] \in {"split", "done"} =>
            LET l0 == load_scone(trainDir).list
                n == Len(l0)
                x == all_train[r]
                elems(l) == {l[i] : i \in DOMAIN l}
            IN  /\ Cardinality(elems(l0)) = n
                /\ Len(x) = n
                /\ elems(x) = elems(l0)
                /\ pc[r] = "done" =>
                    /\ Len(train[r]) = Min(TrainEnd, n)
                    /\ \A i \in DOMAIN train[r] : train[r][i] = x[i]
                    /\ Len(dev[r]) =
                        (IF n <= TrainEnd THEN 0 ELSE Min(DevEnd - TrainEnd, n - TrainEnd))
                    /\ \A i \in DOMAIN dev[r] : dev[r][i] = x[TrainEnd + i]
                    /\ elems(train[r]) \cap elems(dev[r]) = {}
                    /\ n >= DevEnd =>
                        (Len(train[r]) = TrainEnd /\ Len(dev[r]) = DevEnd - TrainEnd)

\* More than 250 Examples were shuffled out of their loaded order and split:
\* one is in neither train nor dev.
C17_Witness ==
    /\ pc[1] = "done"
    /\ Len(all_train[1]) > DevEnd
    /\ all_train[1] # load_scone(trainDir).list
    /\ Len(train[1]) = TrainEnd
    /\ Len(dev[1]) = DevEnd - TrainEnd
    /\ all_train[1][Len(all_train[1])] \notin
        ({train[1][i] : i \in DOMAIN train[1]} \cup {dev[1][i] : i \in DOMAIN dev[1]})

(***************************************************************************)
(* SpecForward: calls of ScoNeCoT.forward.  The capability behind          *)
(* self.generate_answer is external: oracle gives, for each pair of        *)
(* arguments, the prediction it answers with, and calls records what it    *)
(* was asked.                                                              *)
(***************************************************************************)
Contexts == {"c1", "c2"}
Questions == {"q1", "q2"}
\* The instruction asks for Yes or No; nothing holds the capability to it.
Predictions == [rationale : {"r"}, answer : {"Yes", "No", "Maybe"}]

InitForward ==
    /\ generate_answer = NewScoNeCoT
    /\ oracle \in [Contexts \X Questions -> Predictions]
    /\ calls = <<>>
    /\ fwdLog = <<>>
    /\ IdleRow /\ IdleLoad /\ IdleSplit /\ IdleNotebook

\* self.generate_answer(context=c, question=q)
GenerateAnswer(log, c, q) ==
    [result |-> oracle[<<c, q>>],
     log |-> Append(log, [context |-> c, question |-> q,
                          result |-> oracle[<<c, q>>]])]

ForwardRetries(c, q) ==
    /\ Len(fwdLog) < MaxCalls
    /\ LET first == GenerateAnswer(calls, c, q)
           again == GenerateAnswer(first.log, c, q)
           last == IF first.result.answer \in {"Yes", "No"} THEN first ELSE again
       IN  /\ calls' = last.log
           /\ fwdLog' = Append(fwdLog, [context |-> c, question |-> q,
                                        err |-> "none", ret |-> last.result])
    /\ UNCHANGED <<generate_answer, oracle, rowVars, loadVars, splitVars, nbVars>>

\* def forward(self, context, question):
\*     return self.generate_answer(context=context, question=question)
Forward(c, q) ==
    /\ Len(fwdLog) < MaxCalls
    /\ LET call == GenerateAnswer(calls, c, q)
       IN  /\ calls' = call.log
           /\ fwdLog' = Append(fwdLog, [context |-> c, question |-> q,
                                        err |-> "none", ret |-> call.result])
    /\ UNCHANGED <<generate_answer, oracle, rowVars, loadVars, splitVars, nbVars>>

NextForward == \E c \in Contexts, q \in Questions : Forward(c, q)

SpecForward == InitForward /\ [][NextForward]_vars

\* C10: each forward call makes exactly one call to the external
\* capability, with its two arguments unchanged, and returns that call's
\* result unchanged, without an error whatever the answer is; the module's
\* predictor is left as it was constructed, and each call gets the result
\* the capability gives for its arguments, whatever calls came before.
C10_ForwardIsOneCall ==
    /\ Len(calls) = Len(fwdLog)
    /\ generate_answer = NewScoNeCoT
    /\ \A i \in DOMAIN fwdLog :
        /\ calls[i].context = fwdLog[i].context
        /\ calls[i].question = fwdLog[i].question
        /\ fwdLog[i].err = "none"
        /\ fwdLog[i].ret = calls[i].result
        /\ fwdLog[i].ret = oracle[<<fwdLog[i].context, fwdLog[i].question>>]

\* The same arguments were forwarded twice, after another call in between,
\* and the answer returned was neither "Yes" nor "No".
C10_Witness ==
    /\ Len(fwdLog) = 3
    /\ fwdLog[1].context = fwdLog[3].context
    /\ fwdLog[1].question = fwdLog[3].question
    /\ fwdLog[2].question # fwdLog[1].question
    /\ fwdLog[3].ret.answer = "Maybe"
    /\ fwdLog[2].ret.answer = "Yes"

(***************************************************************************)
(* SpecNotebook: the notebook run from its first cell to its last, a cell  *)
(* that raises ending the run.  Python's objects are kept by number:       *)
(* examples, lists and programs hold the Example, list and ScoNeCoT        *)
(* objects in the order they were made, a list object is a sequence of     *)
(* Example numbers, and a name of the notebook is bound to a number.       *)
(* Cells that only display something (value_counts, inspect_history) and   *)
(* the definitions of functions and classes are left out.                  *)
(*                                                                         *)
(* Evaluate, BootstrapFewShotWithRandomSearch and Module.load/save belong  *)
(* to the library and are modelled by what the specification says of them: *)
(* they read the Examples they are given, a program's model calls go to    *)
(* dspy.settings.lm, and compile runs the teacher's model on the training  *)
(* examples and keeps some of its outputs as demonstrations.               *)
(***************************************************************************)
\* Most demonstrations compile keeps.
MaxDemos == 2

\* An entry of the journal: one executed statement or library call, the
\* objects it was given, the Examples it scored and the models it called.
Call(op) ==
    [op |-> op, dirname |-> "", prog |-> 0, list |-> 0, trainset |-> 0,
     valset |-> 0, result |-> 0, scored |-> <<>>, lmcalls |-> {}]

\* The objects load_scone's result adds: its Examples, and the list of them.
NewExamples(res) == examples \o res.list
NewList(res) == [i \in DOMAIN res.list |-> Len(examples) + i]

\* [ex for ex in test if ex.category == "one_scoped"]
OneScopedOnlyKeepsAll(l) == l

OneScopedOnly(l) == SelectSeq(l, LAMBDA e : examples[e].category = OneScoped)

\* A program's model calls on the Examples of list l go to dspy.settings.lm.
ProgramCalls(l) ==
    IF lists[l] = <<>> THEN {} ELSE {[lm |-> settings_lm, role |-> "program"]}

\* Evaluate.__call__(program, metric): every Example of self.devset is
\* scored, in order.
EvaluateCall(prog) ==
    [Call("Evaluate") EXCEPT
        !.prog = prog,
        !.list = notebook.evaluator.devset,
        !.scored = lists[notebook.evaluator.devset],
        !.lmcalls = ProgramCalls(notebook.evaluator.devset)]

\* A demonstration: the fields of an Example, and the teacher's reasoning.
Demo(e) == [context |-> e.context, question |-> e.question,
            answer |-> e.answer, augmented |-> TRUE]

\* bootstrap_optimizer.compile(student, trainset, valset), k of the teacher's
\* outputs kept: the teacher's model runs on the training examples, the
\* candidate programs are scored on valset with dspy.settings.lm, and the
\* result is a new program; student and the two lists are only read.
Compiled(student, trainset, valset, k) ==
    LET n == Min(k, Len(lists[trainset]))
    IN  [program |->
            [programs[student] EXCEPT
                !.demos = [i \in 1..n |-> Demo(examples[lists[trainset][i]])]],
         call |->
            [Call("compile") EXCEPT
                !.prog = student, !.trainset = trainset, !.valset = valset,
                !.result = Len(programs) + 1,
                !.lmcalls =
                    (IF lists[trainset] = <<>> THEN {}
                     ELSE {[lm |-> notebook.bootstrap_optimizer.teacher_settings,
                            role |-> "teacher"]})
                    \cup ProgramCalls(valset)]]

\* ScoNe/scone_nli/test: n rows in two files, enumerated either way round.
TestDirectory(n, swapped) ==
    IF swapped THEN <<TrainDirectory(n)[2], TrainDirectory(n)[1]>>
    ELSE TrainDirectory(n)

\* What the demos file may hold before the run.
SavedDemos ==
    {NoFile,
     [exists |-> TRUE, demos |-> <<>>],
     [exists |-> TRUE,
      demos |-> <<[context |-> StrCell(<<"P">>),
                   question |-> Question(<<"H">>),
                   answer |-> "Yes", augmented |-> TRUE]>>]}

\* The training directory is empty of rows, small, or larger than train and
\* dev together; the test directory may be missing.
InitNotebook ==
    /\ RUN_FROM_SCRATCH = FALSE
    /\ \E n \in {0, 3, MaxTrain} :
        \E t \in {<<>>} \cup {TestDirectory(m, b) : m \in 0..(MaxRows + 1),
                                                   b \in BOOLEAN} :
            \E f \in SavedDemos :
                disk = [train |-> TrainDirectory(n), test |-> t, demos |-> f]
    /\ examples = <<>>
    /\ lists = <<>>
    /\ programs = <<>>
    /\ notebook = NoNotebook
    /\ settings_lm = "none"
    /\ generator \in 0..MaxEntropy
    /\ cell = "configure"
    /\ journal = <<>>
    /\ IdleRow /\ IdleLoad /\ IdleSplit /\ IdleForward

Others == <<rowVars, loadVars, splitVars, fwdVars>>

\* turbo = dspy.OpenAI(...); dspy.settings.configure(lm=turbo)
ConfigureTurbo ==
    /\ cell = "configure"
    /\ settings_lm' = "turbo"
    /\ journal' = Append(journal, Call("configure"))
    /\ cell' = "gpt4T"
    /\ UNCHANGED <<RUN_FROM_SCRATCH, disk, examples, lists, programs, notebook,
                   generator, Others>>

MakeGpt4TConfigured ==
    /\ cell = "gpt4T"
    /\ settings_lm' = "gpt4T"
    /\ journal' = Append(journal, Call("configure"))
    /\ cell' = "toggle"
    /\ UNCHANGED <<RUN_FROM_SCRATCH, disk, examples, lists, programs, notebook,
                   generator, Others>>

\* gpt4T = dspy.OpenAI(...): a client is made, nothing is configured.
MakeGpt4T ==
    /\ cell = "gpt4T"
    /\ cell' = "toggle"
    /\ UNCHANGED <<RUN_FROM_SCRATCH, disk, examples, lists, programs, notebook,
                   settings_lm, generator, journal, Others>>

\* RUN_FROM_SCRATCH = False, or True when its user toggles it.
SetRunFromScratch ==
    /\ cell = "toggle"
    /\ RUN_FROM_SCRATCH' \in BOOLEAN
    /\ cell' = "load_train"
    /\ UNCHANGED <<disk, examples, lists, programs, notebook, settings_lm,
                   generator, journal, Others>>

\* all_train = load_scone("ScoNe/scone_nli/train")
CellLoadTrain ==
    /\ cell = "load_train"
    /\ LET res == load_scone(disk.train)
       IN  IF res.err = "none"
           THEN /\ examples' = NewExamples(res)
                /\ lists' = Append(lists, NewList(res))
                /\ notebook' = [notebook EXCEPT !.all_train = Len(lists) + 1]
                /\ journal' = Append(journal,
                        [Call("load_scone") EXCEPT !.dirname = "train",
                                                   !.list = Len(lists) + 1])
                /\ cell' = "seed"
           ELSE /\ cell' = "failed"
                /\ UNCHANGED <<examples, lists, notebook, journal>>
    /\ UNCHANGED <<RUN_FROM_SCRATCH, disk, programs, settings_lm, generator, Others>>

\* random.seed(1)
CellSeed ==
    /\ cell = "seed"
    /\ generator' = Seeded(generator, SeedValue)
    /\ cell' = "shuffle"
    /\ UNCHANGED <<RUN_FROM_SCRATCH, disk, examples, lists, programs, notebook,
                   settings_lm, journal, Others>>

\* random.shuffle(all_train): the list object itself is rearranged.
CellShuffle ==
    /\ cell = "shuffle"
    /\ LET sh == Shuffle(lists[notebook.all_train], generator)
       IN  /\ lists' = [lists EXCEPT ![notebook.all_train] = sh.list]
           /\ generator' = sh.state
    /\ journal' = Append(journal,
            [Call("shuffle") EXCEPT !.list = notebook.all_train])
    /\ cell' = "split"
    /\ UNCHANGED <<RUN_FROM_SCRATCH, disk, examples, programs, notebook,
                   settings_lm, Others>>

\* train, dev = all_train[: 200], all_train[200: 250]: two new lists.
CellSplit ==
    /\ cell = "split"
    /\ lists' = lists \o <<Slice(lists[notebook.all_train], 0, TrainEnd),
                           Slice(lists[notebook.all_train], TrainEnd, DevEnd)>>
    /\ notebook' = [notebook EXCEPT !.train = Len(lists) + 1,
                                    !.dev = Len(lists) + 2]
    /\ journal' = Append(journal,
            [Call("split") EXCEPT !.list = notebook.all_train])
    /\ cell' = "seed_test"
    /\ UNCHANGED <<RUN_FROM_SCRATCH, disk, examples, programs, settings_lm,
                   generator, Others>>

\* random.seed(1)
CellSeedTest ==
    /\ cell = "seed_test"
    /\ generator' = Seeded(generator, SeedValue)
    /\ cell' = "load_test"
    /\ UNCHANGED <<RUN_FROM_SCRATCH, disk, examples, lists, programs, notebook,
                   settings_lm, journal, Others>>

\* test = load_scone(dirname="ScoNe/scone_nli/test")
CellLoadTest ==
    /\ cell = "load_test"
    /\ LET res == load_scone(disk.test)
       IN  IF res.err = "none"
           THEN /\ examples' = NewExamples(res)
                /\ lists' = Append(lists, NewList(res))
                /\ notebook' = [notebook EXCEPT !.test = Len(lists) + 1]
                /\ journal' = Append(journal,
                        [Call("load_scone") EXCEPT !.dirname = "test",
                                                   !.list = Len(lists) + 1])
                /\ cell' = "filter_test"
           ELSE /\ cell' = "failed"
                /\ UNCHANGED <<examples, lists, notebook, journal>>
    /\ UNCHANGED <<RUN_FROM_SCRATCH, disk, programs, settings_lm, generator, Others>>

CellFilterTestInPlace ==
    /\ cell = "filter_test"
    /\ lists' = [lists EXCEPT ![notebook.test] = OneScopedOnly(lists[notebook.test])]
    /\ journal' = Append(journal, [Call("filter") EXCEPT !.list = notebook.test])
    /\ cell' = "evaluator"
    /\ UNCHANGED <<RUN_FROM_SCRATCH, disk, examples, programs, notebook,
                   settings_lm, generator, Others>>

\* test = [ex for ex in test if ex.category == "one_scoped"]: a new list,
\* which the name test is bound to from here on.
CellFilterTest ==
    /\ cell = "filter_test"
    /\ lists' = Append(lists, OneScopedOnly(lists[notebook.test]))
    /\ notebook' = [notebook EXCEPT !.test = Len(lists) + 1]
    /\ journal' = Append(journal, [Call("filter") EXCEPT !.list = notebook.test])
    /\ cell' = "evaluator"
    /\ UNCHANGED <<RUN_FROM_SCRATCH, disk, examples, programs, settings_lm,
                   generator, Others>>

\* evaluator = Evaluate(devset=test, num_threads=1, ...): it keeps the list.
MakeEvaluator ==
    /\ cell = "evaluator"
    /\ notebook' = [notebook EXCEPT !.evaluator = [devset |-> notebook.test]]
    /\ cell' = "cot_zeroshot"
    /\ UNCHANGED <<RUN_FROM_SCRATCH, disk, examples, lists, programs, settings_lm,
                   generator, journal, Others>>

\* cot_zeroshot = ScoNeCoT()
MakeZeroShot ==
    /\ cell = "cot_zeroshot"
    /\ programs' = Append(programs, NewScoNeCoT)
    /\ notebook' = [notebook EXCEPT !.cot_zeroshot = Len(programs) + 1]
    /\ cell' = "eval_zeroshot"
    /\ UNCHANGED <<RUN_FROM_SCRATCH, disk, examples, lists, settings_lm,
                   generator, journal, Others>>

\* evaluator(cot_zeroshot, metric=scone_accuracy)
EvalZeroShot ==
    /\ cell = "eval_zeroshot"
    /\ journal' = Append(journal, EvaluateCall(notebook.cot_zeroshot))
    /\ cell' = "optimizer"
    /\ UNCHANGED <<RUN_FROM_SCRATCH, disk, examples, lists, programs, notebook,
                   settings_lm, generator, Others>>

\* bootstrap_optimizer = BootstrapFewShotWithRandomSearch(...,
\*     teacher_settings=dict(lm=gpt4T))
MakeOptimizer ==
    /\ cell = "optimizer"
    /\ notebook' = [notebook EXCEPT
            !.bootstrap_optimizer = [teacher_settings |-> "gpt4T"]]
    /\ cell' = "compile_or_load"
    /\ UNCHANGED <<RUN_FROM_SCRATCH, disk, examples, lists, programs, settings_lm,
                   generator, journal, Others>>

\* cot_fewshot = bootstrap_optimizer.compile(cot_zeroshot, trainset=train,
\*                                           valset=dev)
CompileFewShot ==
    \E k \in 0..MaxDemos :
        LET c == Compiled(notebook.cot_zeroshot, notebook.train, notebook.dev, k)
        IN  /\ programs' = Append(programs, c.program)
            /\ notebook' = [notebook EXCEPT !.cot_fewshot = Len(programs) + 1]
            /\ journal' = Append(journal, c.call)
            /\ cell' = "eval_fewshot"

\* cot_fewshot = ScoNeCoT()
\* cot_fewshot.load("scone-cot_fewshot-turbo-gpt4-demos.json")
LoadFewShot ==
    IF disk.demos.exists
    THEN /\ programs' = Append(programs,
                [NewScoNeCoT EXCEPT !.demos = disk.demos.demos])
         /\ notebook' = [notebook EXCEPT !.cot_fewshot = Len(programs) + 1]
         /\ journal' = Append(journal,
                [Call("load") EXCEPT !.prog = Len(programs) + 1,
                                     !.result = Len(programs) + 1])
         /\ cell' = "eval_fewshot"
    ELSE \* the new program is made, and load raises FileNotFoundError
         /\ programs' = Append(programs, NewScoNeCoT)
         /\ notebook' = [notebook EXCEPT !.cot_fewshot = Len(programs) + 1]
         /\ cell' = "failed"
         /\ UNCHANGED journal

CompileOrLoadInverted ==
    /\ cell = "compile_or_load"
    /\ IF RUN_FROM_SCRATCH THEN LoadFewShot ELSE CompileFewShot
    /\ UNCHANGED <<RUN_FROM_SCRATCH, disk, examples, lists, settings_lm,
                   generator, Others>>

\* if RUN_FROM_SCRATCH: ... else: ...
CompileOrLoad ==
    /\ cell = "compile_or_load"
    /\ IF RUN_FROM_SCRATCH THEN CompileFewShot ELSE LoadFewShot
    /\ UNCHANGED <<RUN_FROM_SCRATCH, disk, examples, lists, settings_lm,
                   generator, Others>>

\* evaluator(cot_fewshot, metric=scone_accuracy)
EvalFewShot ==
    /\ cell = "eval_fewshot"
    /\ journal' = Append(journal, EvaluateCall(notebook.cot_fewshot))
    /\ cell' = "save"
    /\ UNCHANGED <<RUN_FROM_SCRATCH, disk, examples, lists, programs, notebook,
                   settings_lm, generator, Others>>

SaveFewShotUnevaluated ==
    /\ cell = "eval_fewshot"
    /\ disk' = [disk EXCEPT
            !.demos = [exists |-> TRUE,
                       demos |-> programs[notebook.cot_fewshot].demos]]
    /\ journal' = Append(journal,
            [Call("save") EXCEPT !.prog = notebook.cot_fewshot])
    /\ cell' = "done"
    /\ UNCHANGED <<RUN_FROM_SCRATCH, examples, lists, programs, notebook,
                   settings_lm, generator, Others>>

\* cot_fewshot.save("scone-cot_fewshot-turbo-gpt4-demos.json")
SaveFewShot ==
    /\ cell = "save"
    /\ disk' = [disk EXCEPT
            !.demos = [exists |-> TRUE,
                       demos |-> programs[notebook.cot_fewshot].demos]]
    /\ journal' = Append(journal,
            [Call("save") EXCEPT !.prog = notebook.cot_fewshot])
    /\ cell' = "done"
    /\ UNCHANGED <<RUN_FROM_SCRATCH, examples, lists, programs, notebook,
                   settings_lm, generator, Others>>

NextNotebook ==
    \/ ConfigureTurbo
    \/ MakeGpt4T
    \/ SetRunFromScratch
    \/ CellLoadTrain
    \/ CellSeed
    \/ CellShuffle
    \/ CellSplit
    \/ CellSeedTest
    \/ CellLoadTest
    \/ CellFilterTest
    \/ MakeEvaluator
    \/ MakeZeroShot
    \/ EvalZeroShot
    \/ MakeOptimizer
    \/ CompileOrLoad
    \/ EvalFewShot
    \/ SaveFewShot

SpecNotebook == InitNotebook /\ [][NextNotebook]_vars

(***************************************************************************)
(* Claims about the run of the notebook, under SpecNotebook.               *)
(***************************************************************************)
\* The entries of the journal for statement or call op.
Entries(op) == {i \in DOMAIN journal : journal[i].op = op}

Elements(l) == {l[i] : i \in DOMAIN l}

\* C11 as stated: once made, no Example changes in any field and no list
\* holding Examples changes in its contents, in any step of the run.
C11_Original ==
    [][/\ \A e \in DOMAIN examples : examples'[e] = examples[e]
       /\ \A l \in DOMAIN lists : lists'[l] = lists[l]]_vars

\* C11 (amended): once made, no Example changes in any field, and no list
\* holding Examples changes, but for one step: random.shuffle rearranges the
\* list all_train itself, before train and dev are sliced from it, keeping
\* its Examples; train, dev, the loaded test list and the filtered one never
\* change, and evaluating, compiling, loading and saving leave every Example
\* and every list as they were.
C11_OnlyShuffleRearranges ==
    [][/\ \A e \in DOMAIN examples :
            e \in DOMAIN examples' /\ examples'[e] = examples[e]
       /\ \A l \in DOMAIN lists :
            /\ l \in DOMAIN lists'
            /\ \/ lists'[l] = lists[l]
               \/ /\ cell = "shuffle"
                  /\ l = notebook.all_train
                  /\ notebook.train = 0 /\ notebook.dev = 0
                  /\ Len(lists'[l]) = Len(lists[l])
                  /\ Elements(lists'[l]) = Elements(lists[l])]_vars

\* A run from scratch has ended: the shuffle had rearranged all_train, the
\* filter had dropped test Examples, and compile had kept demonstrations.
C11_Witness ==
    /\ cell = "done"
    /\ RUN_FROM_SCRATCH
    /\ Len(lists[notebook.all_train]) > DevEnd
    /\ lists[notebook.all_train] # [i \in 1..Len(lists[notebook.all_train]) |-> i]
    /\ lists[notebook.test] # <<>>
    /\ \E l \in DOMAIN lists : Len(lists[l]) > Len(lists[notebook.test])
                               /\ l > notebook.dev
    /\ programs[notebook.cot_fewshot].demos # <<>>

\* The statements after the compile-or-load cell.
AfterFewShot == {"eval_fewshot", "save", "done"}

\* C12: with RUN_FROM_SCRATCH False compile is never called and the GPT-4
\* model gets no call; the few-shot program is a new ScoNeCoT holding the
\* demonstrations of the saved file, and both programs are evaluated, with
\* turbo.  With RUN_FROM_SCRATCH True compile is called exactly once, on
\* cot_zeroshot with trainset=train and valset=dev, and nothing is loaded.
C12_BootstrapOnlyFromScratch ==
    /\ \A i \in Entries("Evaluate") : \A c \in journal[i].lmcalls : c.lm = "turbo"
    /\ cell = "done" =>
        /\ \E i \in Entries("Evaluate") : journal[i].prog = notebook.cot_zeroshot
        /\ \E i \in Entries("Evaluate") : journal[i].prog = notebook.cot_fewshot
    /\ ~RUN_FROM_SCRATCH =>
        /\ Entries("compile") = {}
        /\ \A i \in DOMAIN journal : \A c \in journal[i].lmcalls : c.lm # "gpt4T"
        /\ cell \in AfterFewShot =>
            /\ notebook.cot_fewshot # notebook.cot_zeroshot
            /\ programs[notebook.cot_fewshot] =
                [NewScoNeCoT EXCEPT !.demos = disk.demos.demos]
            /\ \E i \in Entries("load") : journal[i].prog = notebook.cot_fewshot
    /\ (RUN_FROM_SCRATCH /\ cell \in AfterFewShot) =>
        /\ Cardinality(Entries("compile")) = 1
        /\ \A i \in Entries("compile") :
            /\ journal[i].prog = notebook.cot_zeroshot
            /\ journal[i].trainset = notebook.train
            /\ journal[i].valset = notebook.dev
            /\ journal[i].result = notebook.cot_fewshot
        /\ Entries("load") = {}

\* A run with RUN_FROM_SCRATCH False has ended: demonstrations were loaded
\* from the file and both programs were evaluated on a test set that is not
\* empty, over a training set that would have given the teacher work.
C12_Witness ==
    /\ cell = "done"
    /\ ~RUN_FROM_SCRATCH
    /\ programs[notebook.cot_fewshot].demos # <<>>
    /\ lists[notebook.train] # <<>>
    /\ \A i \in Entries("Evaluate") : journal[i].lmcalls # {}
    /\ Cardinality(Entries("Evaluate")) = 2

\* The entries before entry i for statement or call op.
Earlier(i, op) == {j \in Entries(op) : j < i}

\* C13: in every run the training examples are loaded before they are
\* shuffled and split and the test examples before they are filtered, every
\* call of the evaluator or the optimizer comes after all of that, a run that
\* ends has read out both evaluations, and the few-shot program is saved only
\* after it was obtained (by compile or load) and then evaluated.
C13_LoadSplitEvaluateSave ==
    /\ \A i \in Entries("shuffle") \cup Entries("split") :
        \E j \in Earlier(i, "load_scone") : journal[j].dirname = "train"
    /\ \A i \in Entries("split") : Earlier(i, "shuffle") # {}
    /\ \A i \in Entries("filter") :
        \E j \in Earlier(i, "load_scone") : journal[j].dirname = "test"
    /\ \A i \in Entries("Evaluate") \cup Entries("compile") :
        /\ Earlier(i, "split") # {}
        /\ Earlier(i, "filter") # {}
        /\ notebook.train # 0 /\ notebook.dev # 0 /\ notebook.test # 0
    /\ cell = "done" => Cardinality(Entries("Evaluate")) = 2
    /\ \A i \in Entries("save") :
        \E k \in Earlier(i, "Evaluate") :
            /\ journal[k].prog = journal[i].prog
            /\ \E j \in Earlier(k, "compile") \cup Earlier(k, "load") :
                journal[j].result = journal[i].prog

\* A run from scratch has ended with the compiled program saved.
C13_Witness ==
    /\ cell = "done"
    /\ Entries("compile") # {}
    /\ Entries("save") # {}
    /\ disk.demos.demos # <<>>
    /\ disk.demos.demos = programs[notebook.cot_fewshot].demos

\* C14: the GPT-4 model is called only by compile, as the teacher; every
\* call an evaluation makes, and every call compile makes for the programs
\* it scores, goes to turbo, which is configured once, in the first cell,
\* and stays configured.
C14_Gpt4OnlyTeaches ==
    /\ Cardinality(Entries("configure")) <= 1
    /\ cell # "configure" => settings_lm = "turbo"
    /\ \A i \in DOMAIN journal : \A c \in journal[i].lmcalls :
        /\ c.lm \in {"turbo", "gpt4T"}
        /\ c.lm = "gpt4T" <=> (journal[i].op = "compile" /\ c.role = "teacher")
        /\ c.role = "program" => c.lm = "turbo"
        /\ journal[i].op # "compile" => c.lm = "turbo"

\* A run from scratch has ended: compile had called both models and both
\* evaluations had called a model.
C14_Witness ==
    /\ cell = "done"
    /\ \E i \in Entries("compile") :
        {c.lm : c \in journal[i].lmcalls} = {"turbo", "gpt4T"}
    /\ \A i \in Entries("Evaluate") : journal[i].lmcalls # {}
    /\ Cardinality(Entries("Evaluate")) = 2

\* The list load_scone returned for the test directory.
LoadedTest ==
    lists[journal[CHOOSE i \in Entries("load_scone") :
                    journal[i].dirname = "test"].list]

\* C16: the list the evaluator holds is the loaded test Examples of category
\* one_scoped, all of them, once each and in their loaded order, and each
\* of the two evaluations scores exactly the Examples of that list.
C16_TestIsOneScopedOnly ==
    notebook.evaluator.devset # 0 =>
        LET d == lists[notebook.evaluator.devset]
        IN  /\ \A i \in DOMAIN d : examples[d[i]].category = OneScoped
            /\ Elements(d) =
                {e \in Elements(LoadedTest) : examples[e].category = OneScoped}
            /\ \A i, j \in DOMAIN d : i < j => d[i] < d[j]
            /\ \A i \in Entries("Evaluate") :
                /\ journal[i].list = notebook.evaluator.devset
                /\ journal[i].scored = d

\* Both evaluations have scored a test set that the filter had taken from
\* behind Examples of another category.
C16_Witness ==
    /\ cell = "done"
    /\ Cardinality(Entries("Evaluate")) = 2
    /\ Len(lists[notebook.evaluator.devset]) = 2
    /\ Len(LoadedTest) = 4
    /\ examples[LoadedTest[1]].category # OneScoped

====
